---- MODULE Spec2Model ----
(***************************************************************************)
(* JWT verification and impersonation pipeline of the AMPECO custom widget *)
(* boilerplate: middleware -> extractJwtToken -> verifyJwt (key cache,     *)
(* jose jwtVerify, claim checks) -> x-ampeco-* request headers ->          *)
(* getJwtContext -> AmpecoApiService.request -> upstream fetch.            *)
(*                                                                         *)
(* Strings are sequences of fragments (TLA+ strings).  A fragment is the   *)
(* unit every substring test of the code looks for ("Bearer ", "expired",  *)
(* "localhost", a digit, ...), so s.includes(w) is membership of the       *)
(* fragment w, concatenation is \o and the empty string is << >>.          *)
(***************************************************************************)
EXTENDS Integers, Sequences, FiniteSets, TLC

(***************************************************************************)
(* JavaScript values                                                       *)
(***************************************************************************)
Undef   == [k |-> "undefined"]
Null    == [k |-> "null"]
NaN     == [k |-> "NaN"]
Num(n)  == [k |-> "number", n |-> n]
Str(s)  == [k |-> "string", s |-> s]
Bool(b) == [k |-> "boolean", b |-> b]
Arr(a)  == [k |-> "array", a |-> a]

\* JavaScript truthiness, as used by `if (x)`, `!x` and `a || b`.
Truthy(v) ==
  CASE v.k = "number"  -> v.n # 0
    [] v.k = "string"  -> v.s # << >>
    [] v.k = "boolean" -> v.b
    [] v.k = "array"   -> TRUE
    [] OTHER           -> FALSE

\* String.prototype.includes, startsWith, substring on fragment sequences.
Includes(s, w)   == \E i \in DOMAIN s : s[i] = w
StartsWith(s, p) == Len(s) >= Len(p) /\ SubSeq(s, 1, Len(p)) = p
DropPrefix(s, p) == SubSeq(s, Len(p) + 1, Len(s))

DigitChars == <<"0", "1", "2", "3", "4", "5", "6", "7", "8", "9">>
DigitSet   == {DigitChars[i] : i \in DOMAIN DigitChars}
DigitVal(c) == (CHOOSE i \in DOMAIN DigitChars : DigitChars[i] = c) - 1

RECURSIVE NatToString(_)
NatToString(n) ==
  IF n < 10 THEN <<DigitChars[n + 1]>>
  ELSE NatToString(n \div 10) \o <<DigitChars[(n % 10) + 1]>>

\* Number.prototype.toString for integers.
NumberToString(n) == IF n < 0 THEN <<"-">> \o NatToString(0 - n) ELSE NatToString(n)

\* x.toString(): a TypeError on undefined and null.
ToStringJS(v) ==
  CASE v.k = "number"  -> [ok |-> TRUE, s |-> NumberToString(v.n)]
    [] v.k = "string"  -> [ok |-> TRUE, s |-> v.s]
    [] v.k = "boolean" -> [ok |-> TRUE, s |-> IF v.b THEN <<"true">> ELSE <<"false">>]
    [] OTHER           -> [ok |-> FALSE, s |-> << >>]

RECURSIVE ParseDigits(_, _, _)
ParseDigits(s, i, acc) ==
  IF i > Len(s) \/ s[i] \notin DigitSet THEN acc
  ELSE ParseDigits(s, i + 1, acc * 10 + DigitVal(s[i]))

\* parseInt(s, 10): optional sign, then the longest run of digits; NaN if none.
ParseInt(s) ==
  LET signed == Len(s) >= 1 /\ s[1] \in {"-", "+"}
      st     == IF signed THEN 2 ELSE 1
  IN  IF st > Len(s) \/ s[st] \notin DigitSet THEN NaN
      ELSE IF signed /\ s[1] = "-" THEN Num(0 - ParseDigits(s, st, 0))
      ELSE Num(ParseDigits(s, st, 0))

\* JSON.stringify inside a template literal.
RECURSIVE JoinQuoted(_)
JoinQuoted(a) ==
  IF a = << >> THEN << >>
  ELSE <<"\"">> \o Head(a) \o <<"\"">> \o
       (IF Len(a) > 1 THEN <<",">> ELSE << >>) \o JoinQuoted(Tail(a))

JsonStringify(v) ==
  CASE v.k = "string"  -> <<"\"">> \o v.s \o <<"\"">>
    [] v.k = "array"   -> <<"[">> \o JoinQuoted(v.a) \o <<"]">>
    [] v.k = "number"  -> NumberToString(v.n)
    [] v.k = "boolean" -> IF v.b THEN <<"true">> ELSE <<"false">>
    [] v.k = "null"    -> <<"null">>
    [] OTHER           -> <<"undefined">>

(***************************************************************************)
(* Configuration (lib/config/ampeco)                                       *)
(***************************************************************************)
ClockTolerance == 30

\* A validation that looks at the base domain only.
validateEnvDomainOnly(e) ==
  IF e.AMPECO_BASE_DOMAIN = << >> THEN <<"AMPECO_BASE_DOMAIN">> ELSE << >>

\* validateEnv: the names of the required variables that are unset or empty.
validateEnv(e) ==
  (IF e.AMPECO_BASE_DOMAIN = << >> THEN <<"AMPECO_BASE_DOMAIN">> ELSE << >>) \o
  (IF e.AMPECO_BASE_DOMAIN = << >> /\ e.AMPECO_API_TOKEN = << >> THEN <<", ">> ELSE << >>) \o
  (IF e.AMPECO_API_TOKEN = << >> THEN <<"AMPECO_API_TOKEN">> ELSE << >>)

RECURSIVE TrimLeft(_)
TrimLeft(s) == IF s # << >> /\ Head(s) = " " THEN TrimLeft(Tail(s)) ELSE s
RECURSIVE TrimRight(_)
TrimRight(s) ==
  IF s # << >> /\ s[Len(s)] = " " THEN TrimRight(SubSeq(s, 1, Len(s) - 1)) ELSE s

\* A normalization that knows https:// only.
normalizeDomainHttpsOnly(d) ==
  TrimRight(TrimLeft(IF d # << >> /\ Head(d) = "https://" THEN Tail(d) ELSE d))

\* normalizeDomain: domain.replace(/^https?:\/\//, "").trim()
normalizeDomain(d) ==
  TrimRight(TrimLeft(IF d # << >> /\ Head(d) \in {"https://", "http://"} THEN Tail(d) ELSE d))

\* getAmpecoConfig: throws (ok = FALSE, message) or returns the configuration.
getAmpecoConfig(e) ==
  LET missing    == validateEnv(e)
      baseDomain == normalizeDomain(e.AMPECO_BASE_DOMAIN)
  IN  IF missing # << >>
      THEN [ok |-> FALSE,
            message |-> <<"Missing required environment variables: ">> \o missing]
      ELSE [ok |-> TRUE,
            baseDomain |-> baseDomain,
            apiToken   |-> e.AMPECO_API_TOKEN,
            publicKey  |-> <<"https://">> \o baseDomain \o <<"/api/v1/marketplace/public-key">>,
            apiBase    |-> <<"https://">> \o baseDomain \o <<"/public-api/resources">>,
            tenant     |-> <<"https://">> \o baseDomain,
            algorithm  |-> "ES256",
            clockTolerance |-> ClockTolerance]

(***************************************************************************)
(* Token extraction (lib/auth/jwt-verifier)                                *)
(***************************************************************************)
\* An extraction that looks at the Authorization header before the query.
extractJwtTokenHeaderFirst(request) ==
  LET tokenFromQuery == request.query
      authHeader     == request.headers["authorization"]
  IN  IF Truthy(authHeader) /\ StartsWith(authHeader.s, <<"Bearer ">>)
      THEN Str(DropPrefix(authHeader.s, <<"Bearer ">>))
      ELSE IF Truthy(tokenFromQuery) THEN tokenFromQuery
      ELSE Null

\* extractJwtToken: the query parameter first, then the Authorization header.
\* request.query is searchParams.get("token"): Null when the parameter is
\* absent, the empty string for "?token=".
extractJwtToken(request) ==
  LET tokenFromQuery == request.query
      authHeader     == request.headers["authorization"]
  IN  IF Truthy(tokenFromQuery) THEN tokenFromQuery
      ELSE IF Truthy(authHeader) /\ StartsWith(authHeader.s, <<"Bearer ">>)
           THEN Str(DropPrefix(authHeader.s, <<"Bearer ">>))
      ELSE Null

(***************************************************************************)
(* Key resolution (lib/auth/jwt-verifier, getPublicKeyUrl)                 *)
(*                                                                         *)
(* publicKeyCache is the data of the NodeCache: a set of entries           *)
(* [key, val, t], t the instant (seconds) after which the entry is dead:   *)
(* set() writes t = now + stdTTL whether or not the key was there, get()   *)
(* returns undefined for a key whose entry is missing or dead.  A response *)
(* of the key endpoint is [net, ok, status, keys]: net = FALSE is a        *)
(* rejected fetch, keys the `keys` member of the parsed JSON body (a JS    *)
(* value whose array elements are JWKs).                                   *)
(***************************************************************************)
StdTTL == 3600

\* The entry of the cache is there and its TTL has not elapsed.
CacheLive(cache, key, now) == \E e \in cache : e.key = key /\ e.t >= now

\* A cache that never remembers.
CacheGetMiss(cache, key, now) == Undef

CacheGet(cache, key, now) ==
  IF CacheLive(cache, key, now)
  THEN Str((CHOOSE e \in cache : e.key = key).val)
  ELSE Undef

CacheSet(cache, key, val, now) ==
  {e \in cache : e.key # key} \cup {[key |-> key, val |-> val, t |-> now + StdTTL]}

\* The request getPublicKeyUrl sends on a cache miss.
publicKeyRequest(publicKeyUrl, apiToken) ==
  [method |-> "GET", url |-> publicKeyUrl,
   headers |-> [Accept |-> <<"application/json">>,
                Authorization |-> <<"Bearer ">> \o apiToken]]

\* A search that is content with the kid in one entry and the alg in another.
FindKeyAcrossEntries(keys) ==
  /\ \E i \in DOMAIN keys : keys[i].kid = "1"
  /\ \E i \in DOMAIN keys : keys[i].alg = "ES256"

\* jwks.keys.find((k) => k.kid === "1" && k.alg === "ES256")
FindKey(keys) == \E i \in DOMAIN keys : keys[i].kid = "1" /\ keys[i].alg = "ES256"

\* The error thrown inside the try of getPublicKeyUrl for a response, << >> if none.
KeyFetchError(resp) ==
  IF ~resp.net THEN <<"fetch failed">>
  ELSE IF ~resp.ok
       THEN <<"Failed to fetch public key: ">> \o NumberToString(resp.status) \o <<" ">>
  ELSE IF ~Truthy(resp.keys) \/ resp.keys.k # "array"
       THEN <<"Invalid JWKS format: missing keys array">>
  ELSE IF ~FindKey(resp.keys.a)
       THEN <<"No matching key found in JWKS (kid=1, alg=ES256)">>
  ELSE << >>

\* A getPublicKeyUrl that caches the URL before it looks at the response.
getPublicKeyUrlFetchedEager(cache, publicKeyUrl, resp, now) ==
  LET err == KeyFetchError(resp)
  IN  IF err # << >>
      THEN [ok |-> FALSE, message |-> <<"Public key fetch failed: ">> \o err,
            cache |-> CacheSet(cache, publicKeyUrl, publicKeyUrl, now)]
      ELSE [ok |-> TRUE, url |-> publicKeyUrl,
            cache |-> CacheSet(cache, publicKeyUrl, publicKeyUrl, now)]

\* getPublicKeyUrl after its fetch has answered with resp (the cache missed),
\* now being the instant of the answer.
getPublicKeyUrlFetched(cache, publicKeyUrl, resp, now) ==
  LET err == KeyFetchError(resp)
  IN  IF err # << >>
      THEN [ok |-> FALSE, message |-> <<"Public key fetch failed: ">> \o err, cache |-> cache]
      ELSE [ok |-> TRUE, url |-> publicKeyUrl,
            cache |-> CacheSet(cache, publicKeyUrl, publicKeyUrl, now)]

(***************************************************************************)
(* jose jwtVerify, as called by verifyJwt with                             *)
(* { algorithms: [ES256], issuer: tenant, clockTolerance: 30 } and a       *)
(* remote JWK set.  A token is the decoded compact JWS:                    *)
(*   wf   well-formed compact serialization                                *)
(*   alg, kid   protected header                                           *)
(*   sig  the key that produced the signature ("trusted" or another)      *)
(*   iss, aud, exp, nbf, user_id, app_id, widget_id, impersonate  claims   *)
(* A JWK set answer is [ok, keys], keys a set of [kid, alg, signer].       *)
(***************************************************************************)
JoseInvalidCompact  == <<"Invalid Compact JWS">>
JoseAlgNotAllowed   == <<"\"alg\" (Algorithm) Header Parameter value not allowed">>
JoseJwksFetchFailed == <<"Expected 200 OK from the JSON Web Key Set HTTP response">>
JoseNoMatchingKey   == <<"no applicable key found in the JSON Web Key Set">>
JoseMultipleKeys    == <<"multiple matching keys found in the JSON Web Key Set">>
JoseSignatureFailed == <<"signature", " verification failed">>
JoseIssMissing      == <<"missing required \"iss\" claim">>
JoseIssUnexpected   == <<"unexpected \"iss\" claim value">>
JoseNbfNotNumber    == <<"\"nbf\" claim must be a number">>
JoseNbfFailed       == <<"\"nbf\" claim timestamp check failed">>
JoseExpNotNumber    == <<"\"exp\" claim must be a number">>
JoseExpFailed       == <<"\"exp\" claim timestamp check failed">>

\* The keys of the set that the token's protected header selects.
JoseCandidates(t, keys) == {key \in keys : key.kid = t.kid /\ key.alg = t.alg}

\* compactVerify that accepts whatever signature the selected key is shown.
compactVerifyUnsigned(t, jwks, options) ==
  IF ~t.wf THEN JoseInvalidCompact
  ELSE IF t.alg \notin options.algorithms THEN JoseAlgNotAllowed
  ELSE IF ~jwks.ok THEN JoseJwksFetchFailed
  ELSE IF JoseCandidates(t, jwks.keys) = {} THEN JoseNoMatchingKey
  ELSE IF Cardinality(JoseCandidates(t, jwks.keys)) > 1 THEN JoseMultipleKeys
  ELSE << >>

\* compactVerify: header, allowed algorithms, key selection, signature.
\* The error message, << >> when the signature verifies.
compactVerify(t, jwks, options) ==
  IF ~t.wf THEN JoseInvalidCompact
  ELSE IF t.alg \notin options.algorithms THEN JoseAlgNotAllowed
  ELSE IF ~jwks.ok THEN JoseJwksFetchFailed
  ELSE IF JoseCandidates(t, jwks.keys) = {} THEN JoseNoMatchingKey
  ELSE IF Cardinality(JoseCandidates(t, jwks.keys)) > 1 THEN JoseMultipleKeys
  ELSE IF (CHOOSE key \in JoseCandidates(t, jwks.keys) : TRUE).signer # t.sig
       THEN JoseSignatureFailed
  ELSE << >>

\* The claims set validation called without the issuer option.
jwtClaimsSetNoIssuer(t, options, now) ==
  IF t.nbf.k # "undefined" /\ t.nbf.k # "number" THEN JoseNbfNotNumber
  ELSE IF t.nbf.k = "number" /\ t.nbf.n > now + options.clockTolerance THEN JoseNbfFailed
  ELSE IF t.exp.k # "undefined" /\ t.exp.k # "number" THEN JoseExpNotNumber
  ELSE IF t.exp.k = "number" /\ t.exp.n <= now - options.clockTolerance THEN JoseExpFailed
  ELSE << >>

\* The claims set validation of jwtVerify: iss, then nbf, then exp.
jwtClaimsSet(t, options, now) ==
  IF t.iss.k = "undefined" THEN JoseIssMissing
  ELSE IF t.iss # Str(options.issuer) THEN JoseIssUnexpected
  ELSE IF t.nbf.k # "undefined" /\ t.nbf.k # "number" THEN JoseNbfNotNumber
  ELSE IF t.nbf.k = "number" /\ t.nbf.n > now + options.clockTolerance THEN JoseNbfFailed
  ELSE IF t.exp.k # "undefined" /\ t.exp.k # "number" THEN JoseExpNotNumber
  ELSE IF t.exp.k = "number" /\ t.exp.n <= now - options.clockTolerance THEN JoseExpFailed
  ELSE << >>

\* The error jwtVerify throws (its message), << >> when the token verifies:
\* the signature is settled before any claim is looked at.
jwtVerify(t, jwks, options, now) ==
  IF compactVerify(t, jwks, options) # << >> THEN compactVerify(t, jwks, options)
  ELSE jwtClaimsSet(t, options, now)

(***************************************************************************)
(* verifyJwt (lib/auth/jwt-verifier)                                       *)
(***************************************************************************)
ExpiredMessage   == <<"JWT token has ", "expired", ". Please refresh the page.">>
SignatureMessage == <<"Invalid JWT ", "signature", ". Please check configuration.">>
FailedPrefix     == <<"JWT verification failed: ">>
MissingClaimsText == <<"Missing required JWT claims (user_id, app_id, widget_id)">>

\* ${v} in a template literal.
TemplateString(v) ==
  IF v.k \in {"number", "string", "boolean"} THEN ToStringJS(v).s
  ELSE IF v.k = "array" THEN <<"[array]">>
  ELSE <<v.k>>

\* Array.isArray(aud) ? aud : [aud], then audiences.includes(expectedAudience)
AudiencesInclude(aud, expectedAudience) ==
  IF aud.k = "array" THEN \E i \in DOMAIN aud.a : aud.a[i] = expectedAudience
  ELSE aud = Str(expectedAudience)

\* The development bypass of the audience check.
isLocalhost(expectedAudience, nodeEnv) ==
  \/ Includes(expectedAudience, "localhost")
  \/ Includes(expectedAudience, "127.0.0.1")
  \/ nodeEnv = <<"development">>

\* The error thrown inside the try of verifyJwt (its message), << >> if none.
verifyJwtTry(t, expectedAudience, config, nodeEnv, now, jwks) ==
  LET joseError == jwtVerify(t, jwks,
                     [algorithms |-> {config.algorithm}, issuer |-> config.tenant,
                      clockTolerance |-> config.clockTolerance], now)
  IN  IF joseError # << >> THEN joseError
      ELSE IF ~Truthy(t.user_id) \/ ~Truthy(t.app_id) \/ ~Truthy(t.widget_id)
           THEN MissingClaimsText
      ELSE IF t.iss # Str(config.tenant)
           THEN <<"Invalid issuer: expected ">> \o config.tenant \o <<", got ">>
                  \o TemplateString(t.iss)
      ELSE IF /\ Truthy(expectedAudience)
              /\ ~AudiencesInclude(t.aud, expectedAudience.s)
              /\ ~isLocalhost(expectedAudience.s, nodeEnv)
           THEN <<"Invalid audience: expected ">> \o expectedAudience.s \o <<", got ">>
                  \o JsonStringify(t.aud)
      ELSE << >>

\* The catch of verifyJwt: the user-facing message for an error message.
verifyJwtCatch(message) ==
  IF Includes(message, "expired") THEN ExpiredMessage
  ELSE IF Includes(message, "signature") THEN SignatureMessage
  ELSE FailedPrefix \o message

\* verifyJwt once the key endpoint URL is resolved: the payload or the error.
verifyJwtResolved(t, expectedAudience, config, nodeEnv, now, jwks) ==
  LET err == verifyJwtTry(t, expectedAudience, config, nodeEnv, now, jwks)
  IN  IF err = << >> THEN [ok |-> TRUE, payload |-> t, message |-> << >>]
      ELSE [ok |-> FALSE, payload |-> t, message |-> verifyJwtCatch(err)]

\* verifyJwt from its first line: configuration, key resolution (the cache,
\* or the fetch answered by resp), then the verification proper.  stage names
\* where it ended: "config", "key" (both thrown before the try) or "verify".
verifyJwt(t, expectedAudience, e, cache, resp, jwks, now) ==
  LET config == getAmpecoConfig(e)
  IN  IF ~config.ok
      THEN [ok |-> FALSE, stage |-> "config", payload |-> t,
            message |-> config.message, cache |-> cache]
      ELSE
        LET cached == CacheGet(cache, config.publicKey, now)
            key    == IF Truthy(cached)
                      THEN [ok |-> TRUE, url |-> cached.s, cache |-> cache]
                      ELSE getPublicKeyUrlFetched(cache, config.publicKey, resp, now)
        IN  IF ~key.ok
            THEN [ok |-> FALSE, stage |-> "key", payload |-> t,
                  message |-> key.message, cache |-> key.cache]
            ELSE
              LET r == verifyJwtResolved(t, expectedAudience, config,
                                         e.NODE_ENV, now, jwks)
              IN  [ok |-> r.ok, stage |-> "verify", payload |-> t,
                   message |-> r.message, cache |-> key.cache]

(***************************************************************************)
(* Inputs                                                                  *)
(***************************************************************************)
\* The verifier's clock (seconds) and how far around the tolerance edge the
\* exp claims of the checked tokens lie.
Now     == 100
MaxSkew == 1

TenantDomain == <<"tenant.example">>
TenantUrl    == <<"https://">> \o TenantDomain
ApiToken     == <<"svc-secret">>
WidgetOrigin == <<"https://", "widget.example">>
OtherOrigin  == <<"https://", "other.example">>
LoopbackOrigin   == <<"http://", "127.0.0.1", ":3000">>
LocalhostOrigin  == <<"http://", "localhost", ":3000">>
LookalikeOrigin  == <<"https://", "localhost", ".evil.example">>
ExpiredOrigin    == <<"https://", "expired", ".example">>

TrustedKey  == [kid |-> "1", alg |-> "ES256", signer |-> "trusted"]
JwksOk      == [ok |-> TRUE, keys |-> {TrustedKey}]
JwksDown    == [ok |-> FALSE, keys |-> {}]
JwksAnswers == {JwksOk, JwksDown}

KeyRespOk        == [net |-> TRUE, ok |-> TRUE, status |-> 200,
                     keys |-> Arr(<<[kid |-> "1", alg |-> "ES256"]>>)]
KeyRespNetDown   == [net |-> FALSE, ok |-> FALSE, status |-> 0, keys |-> Undef]
KeyRespForbidden == [net |-> TRUE, ok |-> FALSE, status |-> 403, keys |-> Undef]
KeyRespNoKeys    == [net |-> TRUE, ok |-> TRUE, status |-> 200, keys |-> Undef]
KeyRespNotArray  == [net |-> TRUE, ok |-> TRUE, status |-> 200, keys |-> Str(<<"x">>)]
KeyRespSplit     == [net |-> TRUE, ok |-> TRUE, status |-> 200,
                     keys |-> Arr(<<[kid |-> "1", alg |-> "RS256"],
                                    [kid |-> "2", alg |-> "ES256"]>>)]
KeyResponses == {KeyRespOk, KeyRespNetDown, KeyRespForbidden, KeyRespNoKeys,
                 KeyRespNotArray, KeyRespSplit}

ExpTimes == {Now - ClockTolerance + d : d \in (0 - MaxSkew)..MaxSkew} \cup {Now + 60}

VerifyTokens ==
  [wf : {TRUE}, alg : {"ES256", "HS256"}, kid : {"1", "2"}, sig : {"trusted", "other"},
   iss : {Str(TenantUrl), Str(<<"https://", "other.example">>), Undef},
   exp : {Undef} \cup {Num(n) : n \in ExpTimes},
   nbf : {Undef, Num(Now + ClockTolerance + 1)},
   aud : {Str(WidgetOrigin), Str(OtherOrigin), Arr(<<OtherOrigin, WidgetOrigin>>), Undef},
   user_id : {Undef, Num(0), Num(1), Num(0 - 1)},
   app_id : {Undef, Num(2)},
   widget_id : {Undef, Num(3)},
   impersonate : {Bool(TRUE)}]

VerifyAudiences == {Undef, Str(WidgetOrigin), Str(LoopbackOrigin), Str(LookalikeOrigin),
                    Str(ExpiredOrigin)}
NodeEnvs        == {<<"production">>, <<"development">>, <<"test">>}

\* What the network answers during one verifyJwt: the key endpoint to
\* getPublicKeyUrl, then the JWK set to jose (never asked if the first fails).
VerifyNetworks == {[resp |-> KeyRespOk, jwks |-> JwksOk],
                   [resp |-> KeyRespOk, jwks |-> JwksDown],
                   [resp |-> KeyRespNetDown, jwks |-> JwksDown]}

MkEnv(domain, apiToken, nodeEnv) ==
  [AMPECO_BASE_DOMAIN |-> domain, AMPECO_API_TOKEN |-> apiToken, NODE_ENV |-> nodeEnv]

(***************************************************************************)
(* Middleware (middleware.ts)                                              *)
(***************************************************************************)
HeaderNames == {"authorization", "origin",
                "x-ampeco-user-id", "x-ampeco-app-id", "x-ampeco-widget-id",
                "x-ampeco-impersonate", "x-ampeco-jwt-token", "x-ampeco-tenant-url"}
NoHeaders == [h \in HeaderNames |-> Null]

\* config.matcher: the middleware is not run at all on these prefixes.
MatcherRuns(path) ==
  ~ \/ StartsWith(path, <<"/", "api", "/", "health">>)
    \/ StartsWith(path, <<"/", "_next", "/", "static">>)
    \/ StartsWith(path, <<"/", "_next", "/", "image">>)
    \/ StartsWith(path, <<"/", "favicon", ".", "ico">>)

\* The two early returns of middleware: health check, static files, internals.
Exempt(path) ==
  \/ path = <<"/", "api", "/", "health">>
  \/ StartsWith(path, <<"/", "_next">>)
  \/ StartsWith(path, <<"/", "favicon", ".", "ico">>)
  \/ /\ Len(path) >= 2
     /\ path[Len(path) - 1] = "."
     /\ path[Len(path)] \in {"ico", "png", "jpg", "jpeg", "svg", "css", "js"}

NextResponseNext(headers) ==
  [kind |-> "next", headers |-> headers, status |-> 200,
   error |-> << >>, message |-> << >>]
NextResponseJson(status, error, message) ==
  [kind |-> "json", headers |-> NoHeaders, status |-> status,
   error |-> error, message |-> message]

\* A middleware that lets a request without a token through.
middlewareMissingTokenForward == NextResponseNext(NoHeaders)

middlewareMissingToken ==
  NextResponseJson(401, <<"Missing JWT token">>,
    <<"JWT token is required. Please ensure the widget is loaded from AMPECO backend.">>)

\* A catch that logs the error and lets the request through.
middlewareCatchForward(request, message) == NextResponseNext(request.headers)

\* The catch of middleware: every Error thrown in its try ends the request.
middlewareCatch(request, message) ==
  NextResponseJson(401, <<"JWT verification failed">>, message)

\* An expected audience that is always the origin of the request URL.
expectedAudienceOfUrl(request) == Str(request.urlOrigin)

\* origin header, or the origin of the request URL.
expectedAudienceOf(request) ==
  IF Truthy(request.headers["origin"]) THEN request.headers["origin"]
  ELSE Str(request.urlOrigin)

UndefinedToString == <<"Cannot read properties of undefined (reading 'toString')">>

\* A propagation that sets a header only where the client sent none.
middlewarePropagateKeepClient(request, token, payload) ==
  LET Keep(name, value) ==
        IF request.headers[name] # Null THEN request.headers[name] ELSE value
  IN  NextResponseNext(
        [request.headers EXCEPT
           !["x-ampeco-user-id"]     = Keep("x-ampeco-user-id", Str(ToStringJS(payload.user_id).s)),
           !["x-ampeco-app-id"]      = Keep("x-ampeco-app-id", Str(ToStringJS(payload.app_id).s)),
           !["x-ampeco-widget-id"]   = Keep("x-ampeco-widget-id", Str(ToStringJS(payload.widget_id).s)),
           !["x-ampeco-impersonate"] = Keep("x-ampeco-impersonate", Str(ToStringJS(payload.impersonate).s)),
           !["x-ampeco-jwt-token"]   = Keep("x-ampeco-jwt-token", Str(token)),
           !["x-ampeco-tenant-url"]  = Keep("x-ampeco-tenant-url", payload.iss)])

\* The try of middleware after verifyJwt returned payload: the six headers.
middlewarePropagate(request, token, payload) ==
  LET userId      == ToStringJS(payload.user_id)
      appId       == ToStringJS(payload.app_id)
      widgetId    == ToStringJS(payload.widget_id)
      impersonate == ToStringJS(payload.impersonate)
  IN  IF ~userId.ok \/ ~appId.ok \/ ~widgetId.ok \/ ~impersonate.ok
      THEN middlewareCatch(request, UndefinedToString)
      ELSE NextResponseNext(
             [request.headers EXCEPT
                !["x-ampeco-user-id"]     = Str(userId.s),
                !["x-ampeco-app-id"]      = Str(appId.s),
                !["x-ampeco-widget-id"]   = Str(widgetId.s),
                !["x-ampeco-impersonate"] = Str(impersonate.s),
                !["x-ampeco-jwt-token"]   = Str(token),
                !["x-ampeco-tenant-url"]  = payload.iss])

(***************************************************************************)
(* Downstream: getJwtContext, getJwtToken, AmpecoApiService                *)
(***************************************************************************)
\* getJwtContext: Null, or the context parsed from the x-ampeco-* headers.
getJwtContext(headersList) ==
  LET userId      == headersList["x-ampeco-user-id"]
      appId       == headersList["x-ampeco-app-id"]
      widgetId    == headersList["x-ampeco-widget-id"]
      impersonate == headersList["x-ampeco-impersonate"]
      jwtToken    == headersList["x-ampeco-jwt-token"]
      tenantUrl   == headersList["x-ampeco-tenant-url"]
  IN  IF ~Truthy(userId) \/ ~Truthy(appId) \/ ~Truthy(widgetId) \/ ~Truthy(jwtToken)
      THEN Null
      ELSE [k |-> "context",
            userId      |-> ParseInt(userId.s),
            appId       |-> ParseInt(appId.s),
            widgetId    |-> ParseInt(widgetId.s),
            impersonate |-> (impersonate = Str(<<"true">>)),
            jwtToken    |-> jwtToken.s,
            tenantUrl   |-> IF Truthy(tenantUrl) THEN tenantUrl.s ELSE << >>]

\* A getJwtToken that never finds a token.
getJwtTokenNone(headersList) == Null

\* getJwtToken: context?.jwtToken || null
getJwtToken(headersList) ==
  LET context == getJwtContext(headersList)
  IN  IF context # Null /\ context.jwtToken # << >> THEN Str(context.jwtToken) ELSE Null

\* A header that puts the identity token before the credential.
buildAuthHeaderTokenFirst(apiToken, jwtToken) ==
  IF Truthy(jwtToken) THEN <<"Bearer ">> \o jwtToken.s \o <<":">> \o apiToken
  ELSE <<"Bearer ">> \o apiToken

\* AmpecoApiService.buildAuthHeader (and ApiService.buildAuthHeader)
buildAuthHeader(apiToken, jwtToken) ==
  IF Truthy(jwtToken) THEN <<"Bearer ">> \o apiToken \o <<":">> \o jwtToken.s
  ELSE <<"Bearer ">> \o apiToken

\* A token choice that takes the context's token only when impersonating.
requestTokenWhenImpersonating(jwtToken, headersList) ==
  LET context == getJwtContext(headersList)
  IN  IF Truthy(jwtToken) THEN jwtToken
      ELSE IF context # Null /\ context.impersonate THEN getJwtToken(headersList)
      ELSE Null

\* request: const token = jwtToken || (await getJwtToken())
requestToken(jwtToken, headersList) ==
  IF Truthy(jwtToken) THEN jwtToken ELSE getJwtToken(headersList)

\* request: the Authorization header it sends.
requestAuthorization(apiToken, jwtToken, headersList) ==
  buildAuthHeader(apiToken, requestToken(jwtToken, headersList))

\* new AmpecoApiService(): the three fields the instance keeps.
NoInstance == [set |-> FALSE]
newAmpecoApiService(config) ==
  [set |-> TRUE, apiToken |-> config.apiToken, apiBase |-> config.apiBase,
   tenantUrl |-> config.tenant]

\* The route handler a path is dispatched to (app/api/health, app/api/[...path],
\* pages and static files).
RouteOf(path) ==
  IF path = <<"/", "api", "/", "health">> THEN "health"
  ELSE IF StartsWith(path, <<"/", "api", "/">>) /\ Len(path) > 3 THEN "proxy"
  ELSE IF StartsWith(path, <<"/", "_next">>) THEN "static"
  ELSE "page"

(***************************************************************************)
(* Error formatting (lib/utils/error-handler)                              *)
(***************************************************************************)
\* Thrown values: an Error instance, and a plain object with a message
\* property (ApiError) or without one.
ErrorOf(message) == [k |-> "error", message |-> Str(message)]
ObjectOf(message, status) == [k |-> "object", message |-> message, status |-> status]
NoMessageObject == [k |-> "object", status |-> Num(500)]

ERROR_MESSAGES ==
  [JWT_MISSING   |-> <<"Authentication token is missing. Please ensure the widget is loaded from AMPECO backend.">>,
   JWT_EXPIRED   |-> <<"Your session has expired. Please refresh the page.">>,
   JWT_INVALID   |-> <<"Invalid authentication token. Please check your configuration.">>,
   API_ERROR     |-> <<"Failed to fetch data from AMPECO API. Please try again later.">>,
   NETWORK_ERROR |-> <<"Network error. Please check your connection and try again.">>,
   UNKNOWN_ERROR |-> <<"An unexpected error occurred. Please try again.">>]

\* error && typeof error === "object" && "message" in error
HasMessage(error) == error.k \in {"error", "object"} /\ "message" \in DOMAIN error

\* formatApiError: the ApiError branch comes first and takes every object
\* with a message property, Error instances included.
formatApiError(error) ==
  IF HasMessage(error)
  THEN IF Truthy(error.message) THEN error.message.s ELSE ERROR_MESSAGES.API_ERROR
  ELSE IF error.k = "error"
  THEN IF Includes(error.message.s, "expired") THEN ERROR_MESSAGES.JWT_EXPIRED
       ELSE IF Includes(error.message.s, "signature") \/ Includes(error.message.s, "invalid")
       THEN ERROR_MESSAGES.JWT_INVALID
       ELSE IF Includes(error.message.s, "network") \/ Includes(error.message.s, "fetch")
       THEN ERROR_MESSAGES.NETWORK_ERROR
       ELSE error.message.s
  ELSE ERROR_MESSAGES.UNKNOWN_ERROR

(***************************************************************************)
(* AmpecoApiService.request: what it makes of the upstream's answer        *)
(***************************************************************************)
StatusText(status) ==
  CASE status = 200 -> <<"OK">>
    [] status = 404 -> <<"Not Found">>
    [] status = 422 -> <<"Unprocessable Entity">>
    [] OTHER        -> <<"Internal Server Error">>

RequestFailedPrefix == <<"API request failed: ">>

\* The object literal thrown for a non-OK answer with a JSON body.
ApiErrorOf(message, errors, status) ==
  [k |-> "object", message |-> Str(message), errors |-> errors, status |-> Num(status)]

\* The try of request: returns data, or throws.  fetch itself rejects with
\* a TypeError when the network fails.
requestTry(response) ==
  IF ~response.net
  THEN [threw |-> TRUE, error |-> ErrorOf(<<"fetch", " failed">>)]
  ELSE IF ~response.json
  THEN IF ~response.ok
       THEN [threw |-> TRUE,
             error |-> ErrorOf(RequestFailedPrefix \o NumberToString(response.status)
                               \o <<" ">> \o StatusText(response.status))]
       ELSE [threw |-> FALSE, data |-> [k |-> "object"]]
  ELSE IF ~response.ok
  THEN [threw |-> TRUE,
        error |-> ApiErrorOf(IF Truthy(response.data.message) THEN response.data.message.s
                             ELSE RequestFailedPrefix \o NumberToString(response.status),
                             response.data.errors, response.status)]
  ELSE [threw |-> FALSE, data |-> response.data]

\* The catch of request: rethrows an Error instance that has a status, wraps
\* everything else in a new Error.
requestCatch(error) ==
  IF error.k = "error" /\ "status" \in DOMAIN error THEN error
  ELSE ErrorOf(RequestFailedPrefix \o
               (IF error.k = "error" THEN error.message.s ELSE <<"Unknown error">>))

\* request, from the answer on: resolves with data or rejects with error.
requestOutcome(response) ==
  LET t == requestTry(response)
  IN  IF t.threw THEN [ok |-> FALSE, error |-> requestCatch(t.error)]
      ELSE [ok |-> TRUE, data |-> t.data]

\* Answers of the upstream API: none (network failure), without a JSON
\* content type, and JSON bodies with and without message and errors.
NoData == [k |-> "object", message |-> Undef, errors |-> Undef]
FieldErrors == [k |-> "object", name |-> <<"The name field is required.">>]
UpstreamResponses ==
  {[net |-> FALSE, ok |-> FALSE, status |-> 0, json |-> FALSE, data |-> NoData]}
  \cup
  {[net |-> TRUE, ok |-> st = 200, status |-> st, json |-> FALSE, data |-> NoData] :
     st \in {200, 500}}
  \cup
  {[net |-> TRUE, ok |-> st = 200, status |-> st, json |-> TRUE,
    data |-> [k |-> "object", message |-> m, errors |-> e]] :
     st \in {200, 404, 422, 500},
     m \in {Undef, Str(<< >>), Str(<<"The given data was invalid.">>)},
     e \in {Undef, FieldErrors}}

(***************************************************************************)
(* Inbound requests of the pipeline                                        *)
(***************************************************************************)
BaseToken ==
  [wf |-> TRUE, alg |-> "ES256", kid |-> "1", sig |-> "trusted",
   iss |-> Str(TenantUrl), exp |-> Num(Now + 60), nbf |-> Undef,
   aud |-> Str(WidgetOrigin), user_id |-> Num(1), app_id |-> Num(2),
   widget_id |-> Num(3), impersonate |-> Bool(TRUE)]

TokenNames == {"jwt-alice", "jwt-bob", "jwt-noimp", "jwt-forged"}

\* The compact JWS strings in circulation and what each decodes to.
Decode(raw) ==
  CASE raw = <<"jwt-alice">> -> BaseToken
    [] raw = <<"jwt-bob">>   -> [BaseToken EXCEPT !.user_id = Num(17), !.app_id = Num(5),
                                   !.impersonate = Bool(FALSE), !.aud = Str(OtherOrigin)]
    [] raw = <<"jwt-noimp">> -> [BaseToken EXCEPT !.impersonate = Undef]
    [] raw = <<"jwt-forged">> -> [BaseToken EXCEPT !.sig = "other", !.user_id = Num(99)]
    [] OTHER -> [BaseToken EXCEPT !.wf = FALSE]

ForgedHeaders ==
  [NoHeaders EXCEPT !["x-ampeco-user-id"] = Str(<<"9", "9">>),
                    !["x-ampeco-app-id"] = Str(<<"2">>),
                    !["x-ampeco-widget-id"] = Str(<<"3">>),
                    !["x-ampeco-impersonate"] = Str(<<"true">>),
                    !["x-ampeco-jwt-token"] = Str(<<"jwt-forged">>),
                    !["x-ampeco-tenant-url"] = Str(TenantUrl)]

\* Client-supplied x-ampeco-* headers that name no number and no tenant.
PartialHeaders ==
  [NoHeaders EXCEPT !["x-ampeco-user-id"] = Str(<<"a", "b", "c">>),
                    !["x-ampeco-app-id"] = Str(<<"2">>),
                    !["x-ampeco-widget-id"] = Str(<<"-", "3">>),
                    !["x-ampeco-jwt-token"] = Str(<<"x">>)]

Paths == {<<"/", "api", "/", "health">>,
          <<"/", "api", "/", "charge-points", "/", "v1.0">>,
          <<"/", "api", "/", "charge-points", "/", "v1.0", "/", "a", ".", "js">>,
          <<"/", "dashboard">>}

\* Where a request carries its token: nowhere, in the query parameter, or
\* in the Authorization header.
Credentials ==
  {[query |-> Null, authorization |-> Null],
   [query |-> Null, authorization |-> Str(<<"Bearer ", "jwt-alice">>)]}
  \cup {[query |-> Str(<<n>>), authorization |-> Null] : n \in TokenNames}

Requests ==
  {[path |-> p, urlOrigin |-> WidgetOrigin, query |-> c.query,
    headers |-> [base EXCEPT !["authorization"] = c.authorization, !["origin"] = o]] :
     p \in Paths,
     c \in Credentials,
     o \in {Null, Str(LookalikeOrigin)},
     base \in {NoHeaders, ForgedHeaders}}
  \cup
  {[path |-> p, urlOrigin |-> WidgetOrigin, query |-> Null, headers |-> PartialHeaders] :
     p \in {<<"/", "api", "/", "charge-points", "/", "v1.0">>,
            <<"/", "api", "/", "charge-points", "/", "v1.0", "/", "a", ".", "js">>}}
  \cup
  {[path |-> <<"/", "api", "/", "health", "/", "x">>, urlOrigin |-> WidgetOrigin,
    query |-> Null, headers |-> NoHeaders]}
  \cup
  {[path |-> <<"/", "api", "/", "charge-points", "/", "v1.0">>, urlOrigin |-> WidgetOrigin,
    query |-> Str(<<n>>), headers |-> [NoHeaders EXCEPT !["origin"] = o]] :
     n \in {"jwt-alice", "jwt-bob"}, o \in {Str(<< >>), Str(OtherOrigin)}}

NoRequest == [path |-> << >>, urlOrigin |-> << >>, query |-> Null, headers |-> NoHeaders]

Envs == {MkEnv(TenantDomain, ApiToken, <<"production">>),
         MkEnv(<<"https://">> \o TenantDomain, ApiToken, <<"development">>),
         MkEnv(TenantDomain, << >>, <<"production">>),
         MkEnv(<< >>, ApiToken, <<"production">>),
         MkEnv(<< >>, << >>, <<"production">>)}

\* The inbound requests handled concurrently by the one process.
Reqs == {"A", "B"}

(***************************************************************************)
(* State                                                                   *)
(***************************************************************************)
VARIABLES
  env,                \* process.env
  publicKeyCache,     \* the NodeCache of jwt-verifier
  apiServiceInstance, \* the singleton of ampeco-api
  req,                \* per request: the inbound request
  pc,                 \* per request: where its handling stands
  verified,           \* per request: what verifyJwt returned or threw
  hdrs,               \* per request: the headers its route handler sees
  resp,               \* per request: the response sent
  upstream,           \* per request: the outbound call made for it
  vcase,              \* one call of verifyJwt on its own: its arguments
  vres,               \* ... and its outcome, once it has returned or thrown
  clock,              \* Date.now(), in seconds
  calls,              \* per caller: its call of verifyJwt, followed fetch by fetch
  fetchLog,           \* the fetches those calls sent to the key endpoint, in order
  fcase,              \* one call of a pure function on its own: its arguments
  fres                \* ... and what it returned

pipeline == <<apiServiceInstance, req, pc, verified, hdrs, resp, upstream>>
cacheRun == <<clock, calls, fetchLog>>
fnRun    == <<fcase, fres>>
vars == <<env, publicKeyCache, pipeline, vcase, vres, cacheRun, fnRun>>

Pending    == [done |-> FALSE]
NoResponse == [kind |-> "none"]
NoCall     == [made |-> FALSE]
NoCase     == [t |-> BaseToken, expectedAudience |-> Undef]

NoCalls  == [r \in Reqs |-> [pc |-> "idle"]]
NoFnCase == [fn |-> "none", apiToken |-> << >>, jwtToken |-> Undef, request |-> NoRequest,
             arg |-> Undef]

CacheRunIdle == clock = Now /\ calls = NoCalls /\ fetchLog = << >>
FnRunIdle    == fcase = NoFnCase /\ fres = Pending

PipelineIdle ==
  /\ apiServiceInstance = NoInstance
  /\ req      = [r \in Reqs |-> NoRequest]
  /\ pc       = [r \in Reqs |-> "idle"]
  /\ verified = [r \in Reqs |-> Pending]
  /\ hdrs     = [r \in Reqs |-> NoHeaders]
  /\ resp     = [r \in Reqs |-> NoResponse]
  /\ upstream = [r \in Reqs |-> NoCall]

(***************************************************************************)
(* verifyJwt on its own: one call per behaviour, over every token of       *)
(* VerifyTokens, every expected audience and NODE_ENV.                     *)
(***************************************************************************)
InitVerify ==
  /\ env \in {MkEnv(TenantDomain, ApiToken, n) : n \in NodeEnvs}
  /\ publicKeyCache = {}
  /\ vcase \in [t : VerifyTokens, expectedAudience : VerifyAudiences]
  /\ vres = Pending
  /\ PipelineIdle /\ CacheRunIdle /\ FnRunIdle

VerifyCall ==
  /\ ~vres.done
  /\ \E net \in VerifyNetworks :
       LET r == verifyJwt(vcase.t, vcase.expectedAudience, env, publicKeyCache,
                          net.resp, net.jwks, Now)
       IN  /\ vres' = [done |-> TRUE, ok |-> r.ok, stage |-> r.stage,
                       message |-> r.message, payload |-> r.payload, net |-> net]
           /\ publicKeyCache' = r.cache
  /\ UNCHANGED <<env, vcase, pipeline, cacheRun, fnRun>>

NextVerify == VerifyCall

SpecVerify == InitVerify /\ [][NextVerify]_vars

(***************************************************************************)
(* verifyJwt and its key cache over time: up to MaxCalls calls of          *)
(* verifyJwt on a valid token, two of them at a time, followed from await  *)
(* to await (the validation fetch of getPublicKeyUrl, then the fetch of    *)
(* the remote JWK set that verifyJwt creates anew on every call), while    *)
(* the clock moves through Instants.  Every fetch sent to the key endpoint *)
(* is logged with: call, the number of the call that sent it; kind,        *)
(* "validation" or "jwks"; at, the instant; live, whether the cache held a *)
(* live entry for the endpoint at that instant; request, what was sent.    *)
(***************************************************************************)
MaxCalls == 3

Instants == {Now, Now + 1, Now + StdTTL, Now + StdTTL + 1}

CacheRunToken == [BaseToken EXCEPT !.exp = Num(Now + 3 * StdTTL)]

\* The fetch of jose's remote JWK set: the URL alone, no credential.
jwksRequest(publicKeyUrl) ==
  [method |-> "GET", url |-> publicKeyUrl, headers |-> [Accept |-> << >>, Authorization |-> << >>]]

Fetch(n, kind, request) ==
  [call |-> n, kind |-> kind, at |-> clock, request |-> request,
   live |-> CacheLive(publicKeyCache, request.url, clock)]

Started == Cardinality({fetchLog[i].call : i \in DOMAIN fetchLog})

InitCache ==
  /\ env \in {MkEnv(TenantDomain, ApiToken, <<"production">>),
               MkEnv(<<"https://">> \o TenantDomain \o <<" ">>, ApiToken, <<"production">>)}
  /\ publicKeyCache = {}
  /\ vcase = NoCase
  /\ vres = Pending
  /\ PipelineIdle /\ CacheRunIdle /\ FnRunIdle

\* verifyJwt is called: getAmpecoConfig, then getPublicKeyUrl up to its return
\* (a cache hit, after which jwtVerify asks the new remote JWK set for the
\* key) or up to its fetch (a miss).
CallVerifyJwt(r) ==
  /\ calls[r].pc \in {"idle", "done"}
  /\ Started < MaxCalls
  /\ LET config == getAmpecoConfig(env)
         cached == CacheGet(publicKeyCache, config.publicKey, clock)
     IN  IF Truthy(cached)
         THEN /\ calls' = [calls EXCEPT ![r] =
                    [pc |-> "jwks", n |-> Started + 1, hit |-> TRUE, url |-> cached.s]]
              /\ fetchLog' = Append(fetchLog, Fetch(Started + 1, "jwks", jwksRequest(cached.s)))
         ELSE /\ calls' = [calls EXCEPT ![r] =
                    [pc |-> "keyfetch", n |-> Started + 1, hit |-> FALSE]]
              /\ fetchLog' = Append(fetchLog,
                    Fetch(Started + 1, "validation",
                          publicKeyRequest(config.publicKey, config.apiToken)))
  /\ UNCHANGED <<env, publicKeyCache, pipeline, vcase, vres, clock, fnRun>>

\* The key endpoint answers the validation fetch: getPublicKeyUrl throws, or
\* caches and returns the URL and jwtVerify asks the remote JWK set.
KeyEndpointAnswered(r) ==
  /\ calls[r].pc = "keyfetch"
  /\ \E answer \in KeyResponses :
       LET config == getAmpecoConfig(env)
           key == getPublicKeyUrlFetched(publicKeyCache, config.publicKey, answer, clock)
       IN  /\ publicKeyCache' = key.cache
           /\ IF key.ok
              THEN /\ calls' = [calls EXCEPT ![r] =
                         [pc |-> "jwks", n |-> calls[r].n, hit |-> FALSE,
                          url |-> key.url, answer |-> answer]]
                   /\ fetchLog' = Append(fetchLog,
                         [Fetch(calls[r].n, "jwks", jwksRequest(key.url)) EXCEPT
                            !.live = CacheLive(key.cache, key.url, clock)])
              ELSE /\ calls' = [calls EXCEPT ![r] =
                         [pc |-> "done", n |-> calls[r].n, hit |-> FALSE, ok |-> FALSE,
                          stage |-> "key", message |-> key.message, answer |-> answer]]
                   /\ UNCHANGED fetchLog
  /\ UNCHANGED <<env, pipeline, vcase, vres, clock, fnRun>>

\* The remote JWK set answers: jwtVerify and the claim checks run.
JwksAnswered(r) ==
  /\ calls[r].pc = "jwks"
  /\ \E jwks \in JwksAnswers :
       LET v == verifyJwtResolved(CacheRunToken, Undef, getAmpecoConfig(env),
                                  env.NODE_ENV, clock, jwks)
       IN  calls' = [calls EXCEPT ![r] =
             [pc |-> "done", n |-> calls[r].n, hit |-> calls[r].hit, ok |-> v.ok,
              stage |-> "verify", message |-> v.message]]
  /\ UNCHANGED <<env, publicKeyCache, pipeline, vcase, vres, clock, fetchLog, fnRun>>

\* Time passes.
Tick ==
  /\ \E t \in Instants : t > clock /\ clock' = t
  /\ UNCHANGED <<env, publicKeyCache, pipeline, vcase, vres, calls, fetchLog, fnRun>>

NextCache ==
  \/ \E r \in Reqs : CallVerifyJwt(r)
  \/ \E r \in Reqs : KeyEndpointAnswered(r)
  \/ \E r \in Reqs : JwksAnswered(r)
  \/ Tick

SpecCache == InitCache /\ [][NextCache]_vars

(***************************************************************************)
(* buildAuthHeader and extractJwtToken on their own: one call per          *)
(* behaviour, over every credential, identity token, query parameter and   *)
(* Authorization header of the sets below.                                 *)
(***************************************************************************)
\* What formatApiError is handed: Error instances, plain objects with and
\* without a message, a string, null and undefined.
FnErrors ==
  {ErrorOf(m) : m \in {<<"JWT token has ", "expired">>, <<"Invalid JWT ", "signature">>,
                       <<"Network request failed">>, <<"fetch", " failed">>,
                       <<"Some other error">>, << >>}}
  \cup {ObjectOf(Str(<<"API request failed">>), Num(500)),
        ObjectOf(Str(<< >>), Num(500)), ObjectOf(Undef, Num(404)), NoMessageObject,
        Str(<<"string error">>), Null, Undef}

\* The base domains getAmpecoConfig is tried on, each bare, with http:// and
\* with https://.
FnDomains == {TenantDomain, <<"demo.charge.ampeco.tech">>, <<"localhost", ":3000">>}
FnEnvs ==
  {MkEnv(prefix \o d, t, <<"production">>) :
     prefix \in {<< >>, <<"http://">>, <<"https://">>},
     d \in FnDomains, t \in {ApiToken, <<"k">>}}

\* The jwtToken option of request and the headers its getJwtToken reads:
\* no context, and contexts with impersonate true, false and absent.
FnOptions == {Undef, Str(<< >>), Str(<<"jwt-bob">>)}
FnHeaders ==
  {NoHeaders, PartialHeaders}
  \cup {[ForgedHeaders EXCEPT !["x-ampeco-impersonate"] = i] :
          i \in {Str(<<"true">>), Str(<<"false">>), Null}}

FnCredentials == {ApiToken, <<"k">>, <<"a", ":", "b">>, << >>}
FnJwtTokens   == {Undef, Null, Str(<< >>)} \cup {Str(<<n>>) : n \in TokenNames}

FnQueries == {Null, Str(<< >>), Str(<<"jwt-alice">>), Str(<<"jwt-bob">>)}
FnAuthorizations ==
  {Null, Str(<< >>),
   Str(<<"Bearer ", "jwt-alice">>), Str(<<"Bearer ", "jwt-bob">>),
   Str(<<"Bearer ">>), Str(<<"Bearer", "jwt-alice">>),
   Str(<<"bearer ", "jwt-alice">>), Str(<<"BEARER ", "jwt-alice">>),
   Str(<<" ", "Bearer ", "jwt-alice">>), Str(<<"Basic ", "dXNlcjpwdw==">>)}

FnCases ==
  {[fn |-> "buildAuthHeader", apiToken |-> c, jwtToken |-> t, request |-> NoRequest,
    arg |-> Undef] :
     c \in FnCredentials, t \in FnJwtTokens}
  \cup
  {[fn |-> "extractJwtToken", apiToken |-> << >>, jwtToken |-> Undef,
    request |-> [NoRequest EXCEPT !.path = <<"/", "dashboard">>,
                                  !.urlOrigin = WidgetOrigin,
                                  !.query = q,
                                  !.headers = [NoHeaders EXCEPT !["authorization"] = a]],
    arg |-> Undef] :
     q \in FnQueries, a \in FnAuthorizations}
  \cup
  {[NoFnCase EXCEPT !.fn = "formatApiError", !.arg = e] : e \in FnErrors}
  \cup
  {[NoFnCase EXCEPT !.fn = "getAmpecoConfig", !.arg = e] : e \in FnEnvs}
  \cup
  {[NoFnCase EXCEPT !.fn = "request", !.arg = a] : a \in UpstreamResponses}
  \cup
  {[NoFnCase EXCEPT !.fn = "requestAuthorization", !.apiToken = c, !.jwtToken = o,
                    !.arg = h] :
     c \in {ApiToken, <<"k">>}, o \in FnOptions, h \in FnHeaders}

InitFn ==
  /\ env = MkEnv(TenantDomain, ApiToken, <<"production">>)
  /\ publicKeyCache = {}
  /\ vcase = NoCase
  /\ vres = Pending
  /\ PipelineIdle /\ CacheRunIdle
  /\ fcase \in FnCases
  /\ fres = Pending

CallBuildAuthHeader ==
  /\ ~fres.done /\ fcase.fn = "buildAuthHeader"
  /\ fres' = [done |-> TRUE, value |-> Str(buildAuthHeader(fcase.apiToken, fcase.jwtToken))]
  /\ UNCHANGED <<env, publicKeyCache, pipeline, vcase, vres, cacheRun, fcase>>

CallExtractJwtToken ==
  /\ ~fres.done /\ fcase.fn = "extractJwtToken"
  /\ fres' = [done |-> TRUE, value |-> extractJwtToken(fcase.request)]
  /\ UNCHANGED <<env, publicKeyCache, pipeline, vcase, vres, cacheRun, fcase>>

CallFormatApiError ==
  /\ ~fres.done /\ fcase.fn = "formatApiError"
  /\ fres' = [done |-> TRUE, value |-> Str(formatApiError(fcase.arg))]
  /\ UNCHANGED <<env, publicKeyCache, pipeline, vcase, vres, cacheRun, fcase>>

CallGetAmpecoConfig ==
  /\ ~fres.done /\ fcase.fn = "getAmpecoConfig"
  /\ fres' = [done |-> TRUE, value |-> getAmpecoConfig(fcase.arg)]
  /\ UNCHANGED <<env, publicKeyCache, pipeline, vcase, vres, cacheRun, fcase>>

\* request from the answer of the upstream on.
CallRequest ==
  /\ ~fres.done /\ fcase.fn = "request"
  /\ fres' = [done |-> TRUE, value |-> requestOutcome(fcase.arg)]
  /\ UNCHANGED <<env, publicKeyCache, pipeline, vcase, vres, cacheRun, fcase>>

\* request up to its Authorization header.
CallRequestAuthorization ==
  /\ ~fres.done /\ fcase.fn = "requestAuthorization"
  /\ fres' = [done |-> TRUE,
              value |-> Str(requestAuthorization(fcase.apiToken, fcase.jwtToken, fcase.arg))]
  /\ UNCHANGED <<env, publicKeyCache, pipeline, vcase, vres, cacheRun, fcase>>

NextFn ==
  \/ CallBuildAuthHeader
  \/ CallExtractJwtToken
  \/ CallFormatApiError
  \/ CallGetAmpecoConfig
  \/ CallRequest
  \/ CallRequestAuthorization

SpecFn == InitFn /\ [][NextFn]_vars

(***************************************************************************)
(* The pipeline: each request runs middleware (to its awaits: the key      *)
(* fetch, then jose's JWK set fetch), then its route handler, which for a  *)
(* proxy route calls AmpecoApiService.request.  Steps of different         *)
(* requests interleave at the awaits.  The handling of the requests takes  *)
(* no time on the scale of the cache TTL: the clock stands at Now.         *)
(***************************************************************************)
Init ==
  /\ env \in Envs
  /\ publicKeyCache = {}
  /\ vcase = NoCase
  /\ vres = Pending
  /\ PipelineIdle /\ CacheRunIdle /\ FnRunIdle

\* The request ends in middleware with response r, or goes on to its route.
Respond(r, response) ==
  IF response.kind = "next"
  THEN /\ pc' = [pc EXCEPT ![r] = "route"]
       /\ hdrs' = [hdrs EXCEPT ![r] = response.headers]
       /\ resp' = resp
  ELSE /\ pc' = [pc EXCEPT ![r] = "done"]
       /\ hdrs' = hdrs
       /\ resp' = [resp EXCEPT ![r] = response]

\* verifyJwt threw for request r.
Threw(r, stage, message) ==
  /\ verified' = [verified EXCEPT ![r] =
                    [done |-> TRUE, ok |-> FALSE, stage |-> stage, message |-> message]]
  /\ Respond(r, middlewareCatch(req'[r], message))

\* A request arrives and middleware runs to its first await.
Middleware(r) ==
  /\ pc[r] = "idle"
  /\ \E request \in Requests :
       /\ req' = [req EXCEPT ![r] = request]
       /\ IF ~MatcherRuns(request.path) \/ Exempt(request.path)
          THEN /\ Respond(r, NextResponseNext(request.headers))
               /\ UNCHANGED verified
          ELSE IF ~Truthy(extractJwtToken(request))
          THEN /\ Respond(r, middlewareMissingToken)
               /\ UNCHANGED verified
          ELSE IF ~getAmpecoConfig(env).ok
          THEN Threw(r, "config", getAmpecoConfig(env).message)
          ELSE /\ pc' = [pc EXCEPT ![r] =
                           IF Truthy(CacheGet(publicKeyCache, getAmpecoConfig(env).publicKey, Now))
                           THEN "jwtverify" ELSE "keyfetch"]
               /\ UNCHANGED <<verified, hdrs, resp>>
  /\ UNCHANGED <<env, publicKeyCache, apiServiceInstance, upstream, vcase, vres, cacheRun, fnRun>>

\* The key endpoint answers the fetch of getPublicKeyUrl.
KeyFetched(r) ==
  /\ pc[r] = "keyfetch"
  /\ \E answer \in {KeyRespOk, KeyRespNetDown, KeyRespSplit} :
       LET key == getPublicKeyUrlFetched(publicKeyCache,
                                         getAmpecoConfig(env).publicKey, answer, Now)
       IN  /\ publicKeyCache' = key.cache
           /\ IF key.ok
              THEN /\ pc' = [pc EXCEPT ![r] = "jwtverify"]
                   /\ UNCHANGED <<verified, hdrs, resp>>
              ELSE Threw(r, "key", key.message)
  /\ UNCHANGED <<env, apiServiceInstance, req, upstream, vcase, vres, cacheRun, fnRun>>

\* jose's JWK set answers; jwtVerify and the claim checks run, then the
\* propagation into the request headers.
JwtVerified(r) ==
  /\ pc[r] = "jwtverify"
  /\ \E jwks \in JwksAnswers :
       LET token == extractJwtToken(req[r]).s
           v == verifyJwtResolved(Decode(token), expectedAudienceOf(req[r]),
                                  getAmpecoConfig(env), env.NODE_ENV, Now, jwks)
       IN  IF v.ok
           THEN /\ verified' = [verified EXCEPT ![r] =
                      [done |-> TRUE, ok |-> TRUE, stage |-> "verify",
                       message |-> << >>, payload |-> v.payload, token |-> token,
                       audience |-> expectedAudienceOf(req[r])]]
                /\ Respond(r, middlewarePropagate(req[r], token, v.payload))
           ELSE Threw(r, "verify", v.message)
  /\ UNCHANGED <<env, publicKeyCache, apiServiceInstance, req, upstream, vcase, vres, cacheRun, fnRun>>

\* The route handler runs up to its call of AmpecoApiService.request.
Route(r) ==
  /\ pc[r] = "route"
  /\ IF RouteOf(req[r].path) # "proxy"
     THEN /\ pc' = [pc EXCEPT ![r] = "done"]
          /\ resp' = [resp EXCEPT ![r] = NextResponseJson(200, << >>, << >>)]
          /\ UNCHANGED apiServiceInstance
     ELSE IF apiServiceInstance.set
     THEN /\ pc' = [pc EXCEPT ![r] = "request"]
          /\ UNCHANGED <<resp, apiServiceInstance>>
     ELSE IF getAmpecoConfig(env).ok
     THEN /\ apiServiceInstance' = newAmpecoApiService(getAmpecoConfig(env))
          /\ pc' = [pc EXCEPT ![r] = "request"]
          /\ UNCHANGED resp
     ELSE /\ pc' = [pc EXCEPT ![r] = "done"]
          /\ resp' = [resp EXCEPT ![r] =
                        NextResponseJson(500, getAmpecoConfig(env).message, << >>)]
          /\ UNCHANGED apiServiceInstance
  /\ UNCHANGED <<env, publicKeyCache, req, verified, hdrs, upstream, vcase, vres, cacheRun, fnRun>>

\* The headers next/headers hands to code running for request r.
HeadersOfAnyRequest(r) ==
  IF \E q \in Reqs : q # r /\ pc[q] \in {"route", "request", "upstream"}
  THEN hdrs[CHOOSE q \in Reqs : q # r /\ pc[q] \in {"route", "request", "upstream"}]
  ELSE hdrs[r]

HeadersOf(r) == hdrs[r]

\* AmpecoApiService.request: the token of the context, the Authorization
\* header, the fetch.
SendUpstream(r) ==
  /\ pc[r] = "request"
  /\ upstream' = [upstream EXCEPT ![r] =
       [made |-> TRUE, token |-> requestToken(Undef, HeadersOf(r)),
        url |-> apiServiceInstance.apiBase \o <<"/">> \o DropPrefix(req[r].path, <<"/", "api", "/">>),
        authorization |-> requestAuthorization(apiServiceInstance.apiToken, Undef, HeadersOf(r))]]
  /\ pc' = [pc EXCEPT ![r] = "upstream"]
  /\ UNCHANGED <<env, publicKeyCache, apiServiceInstance, req, verified, hdrs, resp, vcase, vres, cacheRun, fnRun>>

\* The upstream API answers, or the network fails: request resolves and
\* the route handler responds 200, or it rejects and the handler's catch
\* responds 500 with the error's message.
UpstreamAnswered(r) ==
  /\ pc[r] = "upstream"
  /\ \E response \in {a \in UpstreamResponses : a.data.errors = Undef /\ a.status # 422} :
       LET outcome == requestOutcome(response)
       IN  resp' = [resp EXCEPT ![r] =
                     IF outcome.ok THEN NextResponseJson(200, << >>, << >>)
                     ELSE NextResponseJson(500, outcome.error.message.s, << >>)]
  /\ pc' = [pc EXCEPT ![r] = "done"]
  /\ UNCHANGED <<env, publicKeyCache, apiServiceInstance, req, verified, hdrs, upstream, vcase, vres, cacheRun, fnRun>>

Next ==
  \/ \E r \in Reqs : Middleware(r)
  \/ \E r \in Reqs : KeyFetched(r)
  \/ \E r \in Reqs : JwtVerified(r)
  \/ \E r \in Reqs : Route(r)
  \/ \E r \in Reqs : SendUpstream(r)
  \/ \E r \in Reqs : UpstreamAnswered(r)

Spec == Init /\ [][Next]_vars

\* What the code's scheduling guarantees.  A handler that can run does run:
\* the route handler and the building of the upstream call are local.  jose
\* bounds the fetch of its remote JWK set by its own timeout, so that await
\* always ends (with the keys or with a failure).  The two fetch calls of
\* this repository, to the key endpoint and to the upstream API, pass no
\* signal and no timeout: nothing in the code ends them when the remote
\* stays silent, so their answers carry no fairness.
Fairness ==
  \A r \in Reqs : /\ WF_vars(JwtVerified(r))
                  /\ WF_vars(Route(r))
                  /\ WF_vars(SendUpstream(r))

SpecLive == Init /\ [][Next]_vars /\ Fairness

(***************************************************************************)
(* Properties                                                              *)
(***************************************************************************)
\* The token carries an ES256 signature made by the trusted key.
SignedByTrustedKey(t) == t.wf /\ t.alg = "ES256" /\ t.sig = "trusted"

\* The verification proper ran with the issuer's key set at hand.
VerifiedWithKeys == vres.done /\ vres.stage = "verify" /\ vres.net.jwks.ok

\* The tenant URL the configuration stands for: https://{baseDomain}.
ClaimedTenant == <<"https://">> \o normalizeDomain(env.AMPECO_BASE_DOMAIN)

\* The host of an origin: what lies between the scheme and the port.
HostOf(origin) ==
  LET rest == Tail(origin)
  IN  IF rest # << >> /\ rest[Len(rest)] \in {":3000"}
      THEN SubSeq(rest, 1, Len(rest) - 1) ELSE rest
IsLoopbackHost(origin) == HostOf(origin) \in {<<"localhost">>, <<"127.0.0.1">>}

IsPositiveInteger(v) == v.k = "number" /\ v.n > 0

\* Everything but exp is in order: signature, key, issuer, nbf, identity
\* claims and audience.
OtherwiseValid(t, expectedAudience) ==
  /\ SignedByTrustedKey(t) /\ t.kid = TrustedKey.kid
  /\ t.iss = Str(ClaimedTenant)
  /\ t.nbf = Undef
  /\ Truthy(t.user_id) /\ Truthy(t.app_id) /\ Truthy(t.widget_id)
  /\ (Truthy(expectedAudience) => AudiencesInclude(t.aud, expectedAudience.s))

C5_AudienceEnforced ==
  vres.done /\ vres.ok /\ Truthy(vcase.expectedAudience) =>
    \/ AudiencesInclude(vcase.t.aud, vcase.expectedAudience.s)
    \/ IsLoopbackHost(vcase.expectedAudience.s)
    \/ env.NODE_ENV # <<"production">>

\* C6: a token whose iss is not exactly https://{baseDomain} fails, whatever
\* its other claims, the expected audience and NODE_ENV; when its signature
\* verified, the failure is jose's issuer failure, which is none of the
\* expiry, signature, audience and missing-claims failures.
C6_IssuerMismatchFails ==
  vres.done /\ vcase.t.iss # Str(ClaimedTenant) =>
    /\ ~vres.ok
    /\ VerifiedWithKeys /\ SignedByTrustedKey(vcase.t) /\ vcase.t.kid = "1" =>
         /\ vres.message = FailedPrefix \o
              (IF vcase.t.iss = Undef THEN JoseIssMissing ELSE JoseIssUnexpected)
         /\ vres.message \notin {ExpiredMessage, SignatureMessage,
                                 FailedPrefix \o JoseExpFailed,
                                 FailedPrefix \o MissingClaimsText}
         /\ ~StartsWith(vres.message, FailedPrefix \o <<"Invalid audience: expected ">>)

\* C6 witness: a correctly signed token of another issuer, expired and without
\* user_id, under the audience bypass, ends in the issuer failure.
C6_Witness ==
  /\ VerifiedWithKeys /\ SignedByTrustedKey(vcase.t) /\ vcase.t.kid = "1"
  /\ vcase.t.iss = Str(<<"https://", "other.example">>)
  /\ vcase.t.exp = Num(Now - ClockTolerance - 1) /\ vcase.t.user_id = Undef
  /\ vcase.expectedAudience = Str(LoopbackOrigin)
  /\ ~vres.ok /\ vres.message = FailedPrefix \o JoseIssUnexpected

\* C7 (as claimed): an otherwise valid token fails with the token-expired
\* error when exp is more than 30 s in the past, and succeeds when exp is in
\* the future or less than 30 s in the past.
C7_ExpiryWithTolerance ==
  VerifiedWithKeys /\ OtherwiseValid(vcase.t, vcase.expectedAudience)
    /\ vcase.t.exp.k = "number" =>
      /\ vcase.t.exp.n < Now - 30 => ~vres.ok /\ vres.message = ExpiredMessage
      /\ vcase.t.exp.n > Now - 30 => vres.ok

\* C8 (as claimed): verifyJwt returns a payload only if user_id, app_id and
\* widget_id are all present and positive integers.
C8_IdentityClaimsPositive ==
  vres.done /\ vres.ok =>
    /\ IsPositiveInteger(vres.payload.user_id)
    /\ IsPositiveInteger(vres.payload.app_id)
    /\ IsPositiveInteger(vres.payload.widget_id)

\* The stages in which code downstream of middleware runs for a request.
Downstream(r) == pc[r] \in {"route", "request", "upstream", "done"}

VerifiedOk(r) == verified[r].done /\ verified[r].ok

\* C1 (as claimed): getJwtContext() while handling a request is non-null only
\* if middleware successfully ran verifyJwt on that request's token, also on
\* exempt paths and with client-supplied x-ampeco-* headers.
C1_ContextOnlyAfterVerification ==
  \A r \in Reqs :
    Downstream(r) /\ getJwtContext(hdrs[r]) # Null => VerifiedOk(r)

\* C2 (as claimed): no upstream call carrying the service credential is made
\* for a request unless extractJwtToken and verifyJwt succeeded for it before.
C2_UpstreamOnlyAfterVerification ==
  \A r \in Reqs :
    upstream[r].made =>
      /\ Truthy(extractJwtToken(req[r]))
      /\ VerifiedOk(r)

\* C3: whenever key resolution or verifyJwt throws for a request, middleware
\* ends it with 401 "JWT verification failed" carrying the error's message;
\* the request is never forwarded, sees no x-ampeco-* header and makes no
\* upstream call.
C3_FailureEndsRequest ==
  \A r \in Reqs :
    verified[r].done /\ ~verified[r].ok =>
      /\ pc[r] = "done"
      /\ resp[r] = NextResponseJson(401, <<"JWT verification failed">>, verified[r].message)
      /\ hdrs[r] = NoHeaders
      /\ ~upstream[r].made

\* C3 witness: one request ended by a failed key fetch, the other by a bad
\* signature, both with 401.
C3_Witness ==
  /\ verified["A"].done /\ verified["A"].stage = "key"
  /\ verified["B"].done /\ verified["B"].stage = "verify"
  /\ verified["B"].message = SignatureMessage
  /\ resp["A"].kind = "json" /\ resp["A"].status = 401
  /\ resp["B"].kind = "json" /\ resp["B"].status = 401

\* C9 (as claimed): every token that passes verifyJwt is forwarded, and
\* getJwtContext() downstream is exactly its user_id, app_id, widget_id,
\* impersonate (false when absent), the raw token and iss; none is turned
\* into a 401.
C9_VerifiedTokenPropagated ==
  \A r \in Reqs :
    VerifiedOk(r) =>
      /\ Downstream(r)
      /\ ~(resp[r].kind = "json" /\ resp[r].status = 401)
      /\ getJwtContext(hdrs[r]) =
           [k |-> "context",
            userId      |-> verified[r].payload.user_id,
            appId       |-> verified[r].payload.app_id,
            widgetId    |-> verified[r].payload.widget_id,
            impersonate |-> (verified[r].payload.impersonate = Bool(TRUE)),
            jwtToken    |-> verified[r].token,
            tenantUrl   |-> verified[r].payload.iss.s]

\* C10: under every interleaving, the token an outbound call embeds is the
\* one of the context of the request that made the call (for a verified
\* request: its own verified token), and the singleton holds nothing but
\* the configuration's apiToken, apiBase and tenantUrl.
C10_NoCrossRequestContext ==
  /\ \A r \in Reqs :
       upstream[r].made =>
         /\ upstream[r].token = getJwtToken(hdrs[r])
         /\ upstream[r].authorization =
              buildAuthHeader(getAmpecoConfig(env).apiToken, getJwtToken(hdrs[r]))
         /\ VerifiedOk(r) =>
              upstream[r].authorization =
                <<"Bearer ">> \o env.AMPECO_API_TOKEN \o <<":">> \o extractJwtToken(req[r]).s
  /\ apiServiceInstance.set =>
       apiServiceInstance = newAmpecoApiService(getAmpecoConfig(env))

\* C10 witness: two verified requests with different tokens, both with their
\* upstream call in flight.
C10_Witness ==
  /\ pc["A"] = "upstream" /\ pc["B"] = "upstream"
  /\ VerifiedOk("A") /\ VerifiedOk("B")
  /\ upstream["A"].token # upstream["B"].token

\* C11: for every non-empty credential, buildAuthHeader without a token
\* (undefined or null) returns exactly "Bearer {cred}", and with a non-empty
\* token exactly "Bearer {cred}:{tok}", credential first; nothing else.
C11_AuthHeaderForms ==
  fres.done /\ fcase.fn = "buildAuthHeader" /\ fcase.apiToken # << >> =>
    /\ fcase.jwtToken \in {Undef, Null} =>
         fres.value = Str(<<"Bearer ">> \o fcase.apiToken)
    /\ fcase.jwtToken.k = "string" /\ fcase.jwtToken.s # << >> =>
         fres.value = Str(<<"Bearer ">> \o fcase.apiToken \o <<":">> \o fcase.jwtToken.s)
    /\ fres.value \in
         {Str(<<"Bearer ">> \o fcase.apiToken)} \cup
         {Str(<<"Bearer ">> \o fcase.apiToken \o <<":">> \o t.s) :
            t \in {x \in FnJwtTokens : x.k = "string"}}

\* C11 witness: a credential that itself holds a colon, with a token.
C11_Witness ==
  /\ fres.done /\ fcase.fn = "buildAuthHeader"
  /\ fcase.apiToken = <<"a", ":", "b">> /\ fcase.jwtToken = Str(<<"jwt-alice">>)
  /\ fres.value = Str(<<"Bearer ", "a", ":", "b", ":", "jwt-alice">>)

\* The Authorization header carries a token after exactly "Bearer ".
HasBearer(request) ==
  /\ request.headers["authorization"].k = "string"
  /\ StartsWith(request.headers["authorization"].s, <<"Bearer ">>)

\* C18 (as claimed): extractJwtToken returns the query parameter whenever it
\* is present, whatever the Authorization header; only when it is not
\* present the text after "Bearer " of the header; otherwise null.
C18_QueryWinsWhenPresent ==
  fres.done /\ fcase.fn = "extractJwtToken" =>
    fres.value =
      IF fcase.request.query # Null THEN fcase.request.query
      ELSE IF HasBearer(fcase.request)
           THEN Str(DropPrefix(fcase.request.headers["authorization"].s, <<"Bearer ">>))
      ELSE Null

\* C18 (amended): extractJwtToken returns the query parameter whenever it is
\* present and not empty, whatever the Authorization header; when it is
\* absent or empty, the text after the 7-character prefix of a header that
\* starts with exactly "Bearer "; otherwise null.
C18_QueryWinsWhenNonEmpty ==
  fres.done /\ fcase.fn = "extractJwtToken" =>
    fres.value =
      IF fcase.request.query \notin {Null, Str(<< >>)} THEN fcase.request.query
      ELSE IF HasBearer(fcase.request)
           THEN Str(DropPrefix(fcase.request.headers["authorization"].s, <<"Bearer ">>))
      ELSE Null

\* C18 witness: both sources carry a token and the query parameter wins.
C18_Witness ==
  /\ fres.done /\ fcase.fn = "extractJwtToken"
  /\ fcase.request.query = Str(<<"jwt-alice">>)
  /\ fcase.request.headers["authorization"] = Str(<<"Bearer ", "jwt-bob">>)
  /\ fres.value = Str(<<"jwt-alice">>)

\* C12: an outbound call made for a request whose verified context has
\* impersonate = true (no jwtToken override: the route handlers give none)
\* carries "Bearer {apiToken}:{that request's JWT}"; one made for a request
\* without a context carries the service-only "Bearer {apiToken}".
C12_ImpersonationHeader ==
  \A r \in Reqs :
    upstream[r].made =>
      /\ VerifiedOk(r) /\ getJwtContext(hdrs[r]) # Null
           /\ getJwtContext(hdrs[r]).impersonate =>
             upstream[r].authorization =
               <<"Bearer ">> \o env.AMPECO_API_TOKEN \o <<":">> \o extractJwtToken(req[r]).s
      /\ getJwtContext(hdrs[r]) = Null =>
             upstream[r].authorization = <<"Bearer ">> \o env.AMPECO_API_TOKEN

\* C12 witness: an impersonating request and a request without a context,
\* both with their upstream call made.
C12_Witness ==
  /\ upstream["A"].made /\ VerifiedOk("A")
  /\ getJwtContext(hdrs["A"]) # Null /\ getJwtContext(hdrs["A"]).impersonate
  /\ upstream["A"].authorization = <<"Bearer ", "svc-secret", ":", "jwt-alice">>
  /\ upstream["B"].made /\ getJwtContext(hdrs["B"]) = Null
  /\ upstream["B"].authorization = <<"Bearer ", "svc-secret">>

\* A request on a path middleware guards, with no token in the query string
\* and none in the Authorization header.
NoTokenRequest(r) ==
  /\ pc[r] # "idle"
  /\ MatcherRuns(req[r].path) /\ ~Exempt(req[r].path)
  /\ ~Truthy(extractJwtToken(req[r]))

C20_ContextFullyPopulated ==
  \A r \in Reqs :
    Downstream(r) /\ getJwtContext(hdrs[r]) # Null =>
      /\ IsPositiveInteger(getJwtContext(hdrs[r]).userId)
      /\ IsPositiveInteger(getJwtContext(hdrs[r]).appId)
      /\ IsPositiveInteger(getJwtContext(hdrs[r]).widgetId)
      /\ getJwtContext(hdrs[r]).jwtToken # << >>
      /\ getJwtContext(hdrs[r]).tenantUrl = ClaimedTenant

\* The key endpoint of the configured tenant.
KeyEndpoint ==
  <<"https://">> \o normalizeDomain(env.AMPECO_BASE_DOMAIN)
    \o <<"/api/v1/marketplace/public-key">>

\* A call of verifyJwt starts at caller r in this step.
Starts(r) == calls[r].pc \in {"idle", "done"} /\ calls'[r].pc \in {"keyfetch", "jwks"}

\* C13 (as claimed): within the TTL window of a cached key endpoint no
\* further fetch reaches the endpoint, neither the validation fetch of
\* getPublicKeyUrl nor a fetch of the remote JWK set: the fetch that filled
\* the cache is the window's only one.
C13_OneFetchPerWindow ==
  \A i \in DOMAIN fetchLog : ~fetchLog[i].live

\* C14: getPublicKeyUrl called while the cache holds a live entry for the
\* endpoint returns the cached URL, sends no fetch of its own (the only
\* fetch that follows is jwtVerify's, of the remote JWK set) and leaves the
\* cache, the entry's expiry included, as it was.
C14_CacheHitFrame ==
  [][\A r \in Reqs :
       Starts(r) /\ CacheLive(publicKeyCache, KeyEndpoint, clock) =>
         /\ calls'[r].pc = "jwks" /\ calls'[r].hit
         /\ calls'[r].url = KeyEndpoint
         /\ publicKeyCache' = publicKeyCache
         /\ \A i \in DOMAIN fetchLog' :
              fetchLog'[i].kind = "validation" =>
                i \in DOMAIN fetchLog /\ fetchLog[i] = fetchLog'[i]]_vars

\* C14 witness: a call hits the cache at the last instant of the entry's TTL.
C14_Witness ==
  /\ calls["B"].pc = "jwks" /\ calls["B"].hit
  /\ clock = Now + StdTTL
  /\ publicKeyCache = {[key |-> KeyEndpoint, val |-> KeyEndpoint, t |-> Now + StdTTL]}

\* C15: a key fetch that fails leaves the cache as it was and ends the call
\* (one validation fetch per call at most, none after the failure); a call
\* that finds no live entry sends a fresh fetch; a fetch that succeeds
\* leaves the endpoint URL in the cache, whatever failed before.
C15_FailedFetchFrame ==
  /\ [](\A i, j \in DOMAIN fetchLog :
          i < j /\ fetchLog[i].call = fetchLog[j].call =>
            fetchLog[i].kind = "validation" /\ fetchLog[j].kind = "jwks")
  /\ [](\A r \in Reqs :
          calls[r].pc = "done" /\ calls[r].stage = "key" =>
            Cardinality({i \in DOMAIN fetchLog : fetchLog[i].call = calls[r].n}) = 1)
  /\ [][\A r \in Reqs :
          /\ calls[r].pc = "keyfetch" /\ calls'[r].pc = "done" =>
                publicKeyCache' = publicKeyCache /\ fetchLog' = fetchLog
          /\ calls[r].pc = "keyfetch" /\ calls'[r].pc = "jwks" =>
                CacheGet(publicKeyCache', KeyEndpoint, clock') = Str(KeyEndpoint)
          /\ Starts(r) /\ ~CacheLive(publicKeyCache, KeyEndpoint, clock) =>
                /\ calls'[r].pc = "keyfetch"
                /\ Len(fetchLog') = Len(fetchLog) + 1
                /\ fetchLog'[Len(fetchLog')].kind = "validation"
                /\ fetchLog'[Len(fetchLog')].call = calls'[r].n]_vars

\* C15 witness: two calls failed at the key fetch, the third one fetched
\* again, succeeded and left the URL in the cache.
C15_Witness ==
  /\ Len(fetchLog) = 4
  /\ \A i \in 1..3 : fetchLog[i].kind = "validation" /\ fetchLog[i].call = i
  /\ calls["A"].pc = "done" /\ calls["A"].stage = "key" /\ calls["A"].n = 2
  /\ calls["B"].pc = "jwks" /\ calls["B"].n = 3 /\ ~calls["B"].hit
  /\ CacheLive(publicKeyCache, KeyEndpoint, clock)

\* The response is OK and the keys member of its body is an array with an
\* entry that has both kid "1" and alg "ES256".
UsableKeySet(answer) ==
  /\ answer.net /\ answer.ok
  /\ answer.keys.k = "array"
  /\ \E i \in DOMAIN answer.keys.a :
       answer.keys.a[i].kid = "1" /\ answer.keys.a[i].alg = "ES256"

\* The call at r missed the cache and its validation fetch has been answered.
Answered(r) == calls[r].pc \in {"jwks", "done"} /\ ~calls[r].hit

\* C16: on a miss getPublicKeyUrl returns and caches the endpoint URL if and
\* only if the response is OK with a keys array that has one entry with both
\* kid "1" and alg "ES256"; otherwise it throws "Public key fetch failed:
\* ...".  Its request is a GET of https://{baseDomain}/api/v1/marketplace/
\* public-key with Authorization: Bearer {apiToken}, Accept: application/json.
C16_KeyFetchOutcome ==
  /\ \A r \in Reqs :
       Answered(r) /\ (calls[r].pc = "done" => calls[r].stage = "key") =>
         /\ calls[r].pc = "jwks" <=> UsableKeySet(calls[r].answer)
         /\ calls[r].pc = "jwks" =>
              /\ calls[r].url = KeyEndpoint
              /\ \E e \in publicKeyCache : e.key = KeyEndpoint /\ e.val = KeyEndpoint
         /\ calls[r].pc = "done" =>
              /\ ~calls[r].ok
              /\ StartsWith(calls[r].message, <<"Public key fetch failed: ">>)
  /\ \A i \in DOMAIN fetchLog :
       fetchLog[i].kind = "validation" =>
         fetchLog[i].request =
           [method |-> "GET", url |-> KeyEndpoint,
            headers |-> [Accept |-> <<"application/json">>,
                         Authorization |-> <<"Bearer ">> \o env.AMPECO_API_TOKEN]]

\* C16 witness: a key set with the kid in one entry and the alg in another
\* is refused, the one with the matching entry is accepted.
C16_Witness ==
  /\ calls["A"].pc = "done" /\ calls["A"].stage = "key"
  /\ calls["A"].answer = KeyRespSplit
  /\ calls["A"].message = <<"Public key fetch failed: ",
                            "No matching key found in JWKS (kid=1, alg=ES256)">>
  /\ calls["B"].pc = "jwks" /\ ~calls["B"].hit /\ calls["B"].answer = KeyRespOk

\* C17 (as claimed): once an entry is in the cache its expiry stands until
\* it has passed: no step (a hit, the answer to a redundant concurrent
\* fetch) moves the expiry of a live entry.
C17_ExpiryFixedAtFirstFetch ==
  [][\A e \in publicKeyCache : e.t >= clock => e \in publicKeyCache']_vars

\* C21 (as claimed): a failure's message is decided by its kind: a bad
\* signature gives the signature message, an expired token the expired
\* message, and an issuer, missing-claims or audience failure the generic
\* "JWT verification failed: {detail}", never the expired or the signature
\* message, whatever its detail says.
C21_MessageByKind ==
  VerifiedWithKeys /\ ~vres.ok /\ vcase.t.wf /\ vcase.t.alg = "ES256" /\ vcase.t.kid = "1" =>
    LET t       == vcase.t
        issOk   == t.iss = Str(ClaimedTenant)
        expired == t.exp.k = "number" /\ t.exp.n <= Now - ClockTolerance
    IN  IF t.sig # "trusted" THEN vres.message = SignatureMessage
        ELSE IF issOk /\ t.nbf = Undef /\ expired THEN vres.message = ExpiredMessage
        ELSE IF ~issOk \/ t.nbf = Undef
             THEN /\ vres.message \notin {ExpiredMessage, SignatureMessage}
                  /\ StartsWith(vres.message, FailedPrefix)
        ELSE TRUE

\* C22 (as claimed): every key fetch and every upstream call ends, with an
\* answer or with a network failure after a timeout, so every request that
\* has arrived eventually receives its response.
C22_EveryRequestAnswered ==
  \A r \in Reqs : (pc[r] # "idle") ~> (pc[r] = "done")

\* The request went past middleware to its route handler.
Forwarded(r) ==
  \/ pc[r] \in {"route", "request", "upstream"}
  \/ pc[r] = "done" /\ ~(resp[r].kind = "json" /\ resp[r].status = 401)

\* C23 (as claimed): a request goes through without extraction and
\* verification exactly when its path is /api/health, starts with /_next or
\* /favicon.ico, or ends in .ico .png .jpg .jpeg .svg .css .js; every other
\* forwarded request, and every request that reaches a proxy route under
\* /api, presented a token that verified.
C23_ExemptExactly ==
  \A r \in Reqs :
    Forwarded(r) =>
      /\ ~verified[r].done <=> Exempt(req[r].path)
      /\ RouteOf(req[r].path) = "proxy" =>
            Truthy(extractJwtToken(req[r])) /\ VerifiedOk(r)

\* C24 (as claimed): formatApiError agrees with the table of its tests: an
\* Error whose message contains "expired" gives JWT_EXPIRED, one about a
\* signature or an invalid token JWT_INVALID, a network failure
\* NETWORK_ERROR, any other Error its own message; a plain object with a
\* non-empty message that message; a string or null UNKNOWN_ERROR.
C24_TestTable ==
  fres.done /\ fcase.fn = "formatApiError" =>
    LET error == fcase.arg
    IN  /\ error.k = "error" =>
              fres.value =
                Str(IF Includes(error.message.s, "expired") THEN ERROR_MESSAGES.JWT_EXPIRED
                    ELSE IF Includes(error.message.s, "signature")
                            \/ Includes(error.message.s, "invalid")
                    THEN ERROR_MESSAGES.JWT_INVALID
                    ELSE IF error.message.s = <<"Network request failed">>
                            \/ Includes(error.message.s, "network")
                            \/ Includes(error.message.s, "fetch")
                    THEN ERROR_MESSAGES.NETWORK_ERROR
                    ELSE error.message.s)
        /\ error.k = "object" /\ HasMessage(error) /\ Truthy(error.message) =>
              fres.value = error.message
        /\ error.k \in {"string", "null"} => fres.value = Str(ERROR_MESSAGES.UNKNOWN_ERROR)

MissingPrefix == <<"Missing required environment variables: ">>

\* C25: getAmpecoConfig throws "Missing required environment variables: ..."
\* naming exactly the missing variables whenever AMPECO_BASE_DOMAIN or
\* AMPECO_API_TOKEN is unset or empty, and returns a configuration only when
\* both are set; with either missing every verification fails with that
\* error, no service instance is ever created and no upstream call is made.
C25_MissingConfigFails ==
  LET noDomain == env.AMPECO_BASE_DOMAIN = << >>
      noToken  == env.AMPECO_API_TOKEN = << >>
      config   == getAmpecoConfig(env)
  IN  /\ config.ok <=> ~noDomain /\ ~noToken
      /\ ~config.ok =>
            /\ StartsWith(config.message, MissingPrefix)
            /\ Includes(config.message, "AMPECO_BASE_DOMAIN") <=> noDomain
            /\ Includes(config.message, "AMPECO_API_TOKEN") <=> noToken
      /\ noDomain \/ noToken =>
            /\ apiServiceInstance = NoInstance
            /\ \A r \in Reqs :
                 /\ ~upstream[r].made
                 /\ verified[r].done =>
                      /\ ~verified[r].ok /\ verified[r].stage = "config"
                      /\ StartsWith(verified[r].message, MissingPrefix)
                 /\ pc[r] = "done" /\ RouteOf(req[r].path) = "proxy" =>
                      resp[r].kind = "json" /\ resp[r].status \in {401, 500}

\* C25 witness: with the API token missing, one request failed verification
\* at the configuration, and the proxy route of another, which went past
\* middleware on an exempt path, answered 500 without creating the instance.
C25_Witness ==
  /\ env.AMPECO_BASE_DOMAIN # << >> /\ env.AMPECO_API_TOKEN = << >>
  /\ verified["A"].done /\ verified["A"].stage = "config"
  /\ ~verified["B"].done /\ pc["B"] = "done" /\ RouteOf(req["B"].path) = "proxy"
  /\ resp["B"].status = 500 /\ StartsWith(resp["B"].error, MissingPrefix)
  /\ apiServiceInstance = NoInstance

\* C26: for every base domain d the configuration has publicKey
\* https://{d}/api/v1/marketplace/public-key, apiBase
\* https://{d}/public-api/resources, tenant https://{d}, algorithm ES256 and
\* clockTolerance 30, the same whether the variable holds d, http://d or
\* https://d; normalizing the normalized domain changes nothing.
C26_ConfigUrls ==
  fres.done /\ fcase.fn = "getAmpecoConfig" =>
    \A d \in FnDomains :
      fcase.arg.AMPECO_BASE_DOMAIN \in {d, <<"http://">> \o d, <<"https://">> \o d} =>
        /\ fres.value.ok
        /\ fres.value.baseDomain = d
        /\ fres.value.publicKey = <<"https://">> \o d \o <<"/api/v1/marketplace/public-key">>
        /\ fres.value.apiBase = <<"https://">> \o d \o <<"/public-api/resources">>
        /\ fres.value.tenant = <<"https://">> \o d
        /\ fres.value.algorithm = "ES256"
        /\ fres.value.clockTolerance = 30
        /\ fres.value.apiToken = fcase.arg.AMPECO_API_TOKEN
        /\ normalizeDomain(fres.value.baseDomain) = fres.value.baseDomain

\* C26 witness: the domain of the tests given with http://.
C26_Witness ==
  /\ fres.done /\ fcase.fn = "getAmpecoConfig"
  /\ fcase.arg.AMPECO_BASE_DOMAIN = <<"http://", "demo.charge.ampeco.tech">>
  /\ fres.value.publicKey =
       <<"https://", "demo.charge.ampeco.tech", "/api/v1/marketplace/public-key">>

\* C27 (as claimed): when the upstream answers a non-OK status with a JSON
\* body, request rejects with an error that keeps the upstream's outcome:
\* its message is the body's message, or "API request failed: {status}"
\* when the body has none, and it carries the status and the body's errors;
\* it is not replaced by the generic "Unknown error".
C27_UpstreamErrorPreserved ==
  fres.done /\ fcase.fn = "request"
    /\ fcase.arg.net /\ ~fcase.arg.ok /\ fcase.arg.json =>
      /\ ~fres.value.ok
      /\ fres.value.error.message =
           (IF Truthy(fcase.arg.data.message) THEN fcase.arg.data.message
            ELSE Str(RequestFailedPrefix \o NumberToString(fcase.arg.status)))
      /\ "status" \in DOMAIN fres.value.error
      /\ fres.value.error.status = Num(fcase.arg.status)
      /\ fres.value.error.errors = fcase.arg.data.errors
      /\ ~Includes(fres.value.error.message.s, "Unknown error")

ContextHeaders == {"x-ampeco-user-id", "x-ampeco-app-id", "x-ampeco-widget-id",
                   "x-ampeco-impersonate", "x-ampeco-jwt-token", "x-ampeco-tenant-url"}

\* C28: on every verified and forwarded request all six x-ampeco-* headers
\* are overwritten from the verified token, and two such requests with the
\* same token that differ in the x-ampeco-* headers their clients sent see
\* the same six headers and the same context.
C28_ClientHeadersOverwritten ==
  /\ \A r \in Reqs :
       VerifiedOk(r) /\ Forwarded(r) =>
         LET payload == verified[r].payload
         IN  /\ hdrs[r]["x-ampeco-user-id"]     = Str(ToStringJS(payload.user_id).s)
             /\ hdrs[r]["x-ampeco-app-id"]      = Str(ToStringJS(payload.app_id).s)
             /\ hdrs[r]["x-ampeco-widget-id"]   = Str(ToStringJS(payload.widget_id).s)
             /\ hdrs[r]["x-ampeco-impersonate"] = Str(ToStringJS(payload.impersonate).s)
             /\ hdrs[r]["x-ampeco-jwt-token"]   = Str(extractJwtToken(req[r]).s)
             /\ hdrs[r]["x-ampeco-tenant-url"]  = payload.iss
  /\ \A r, q \in Reqs :
       /\ VerifiedOk(r) /\ Forwarded(r) /\ VerifiedOk(q) /\ Forwarded(q)
       /\ extractJwtToken(req[r]) = extractJwtToken(req[q])
       => /\ \A h \in ContextHeaders : hdrs[r][h] = hdrs[q][h]
          /\ getJwtContext(hdrs[r]) = getJwtContext(hdrs[q])

\* C28 witness: two forwarded requests with the same verified token, one
\* sent with forged x-ampeco-* headers and one with none.
C28_Witness ==
  /\ VerifiedOk("A") /\ Forwarded("A") /\ VerifiedOk("B") /\ Forwarded("B")
  /\ extractJwtToken(req["A"]) = extractJwtToken(req["B"])
  /\ req["A"].headers["x-ampeco-user-id"] = Str(<<"9", "9">>)
  /\ req["B"].headers["x-ampeco-user-id"] = Null
  /\ getJwtContext(hdrs["A"]).userId = Num(1)

====
